---- MODULE Spec2Model ----
(***************************************************************************)
(* A model of the fluent rsync command builder (class Rsync): the          *)
(* Configuration Store, the argument assembler args()/command() with its   *)
(* option, pattern and path serializers, and the promise-based execution   *)
(* engine execute(); the exposed option methods (shell, chmod and the      *)
(* shorthand flags), Rsync.build, and the set/unset/flags methods of the   *)
(* callback-based builder (rsync.js).                                      *)
(*                                                                         *)
(* JavaScript strings are sequences of one-character strings, so that      *)
(* escaping, dash stripping and path normalisation are computed character  *)
(* by character.  JavaScript values are records [t |-> type, v |-> ...].   *)
(***************************************************************************)
EXTENDS Integers, Sequences, FiniteSets, TLC

VARIABLES
    _executable,      \* this._executable : string
    _sources,         \* this._sources : array of strings
    _destination,     \* this._destination : string
    _patterns,        \* this._patterns : array of {action, pattern}
    _options,         \* target object of the this._options proxy, keys in creation order
    _outputHandlers,  \* this._outputHandlers : {stdout, stderr}
    _cwd,             \* this._cwd
    _env,             \* this._env
    ret,              \* the most recent call on the builder and what it returned
    runs              \* one record per execute() invocation, in call order

store == <<_executable, _sources, _destination, _patterns, _options,
           _outputHandlers, _cwd, _env>>

vars == <<_executable, _sources, _destination, _patterns, _options,
          _outputHandlers, _cwd, _env, ret, runs>>

-----------------------------------------------------------------------------
(* Bounds *)

MaxOptions == 3
MaxPatterns == 2
MaxSources == 2
MaxRuns == 1
MaxEvents == 2
MaxArgLen == 3
MaxValues == 3
MaxFlags == 1
MaxKeys == 2
MaxConcurrent == 2

-----------------------------------------------------------------------------
(* JavaScript values *)

Undefined == [t |-> "undefined", v |-> <<>>]

Str(s) == [t |-> "string", v |-> s]

Arr(xs) == [t |-> "array", v |-> xs]

Null == [t |-> "null", v |-> <<>>]

\* a number, held as its decimal text
Num(digits) == [t |-> "number", v |-> digits]

\* a plain object {action, pattern}
Obj(action, pattern) == [t |-> "object", v |-> <<action, pattern>>]

\* true / false
Boolean(b) ==
    [t |-> "boolean",
     v |-> IF b THEN <<"t", "r", "u", "e">> ELSE <<"f", "a", "l", "s", "e">>]

\* JavaScript truthiness of a value, as used by `if (x)` and `x && y`.
Truthy(x) ==
    CASE x.t = "undefined" -> FALSE
      [] x.t = "boolean" -> x.v = <<"t", "r", "u", "e">>
      [] x.t = "null" -> FALSE
      [] x.t = "string" -> x.v # <<>>
      [] x.t = "number" -> x.v # <<"0">>
      [] OTHER -> TRUE

\* String(value) for the values of the model.
RECURSIVE String(_)
RECURSIVE JoinValues(_)
JoinValues(xs) ==
    IF xs = <<>> THEN <<>>
    ELSE IF Len(xs) = 1 THEN String(xs[1])
    ELSE String(xs[1]) \o <<",">> \o JoinValues(Tail(xs))

String(x) ==
    CASE x.t = "undefined" -> <<"u", "n", "d", "e", "f", "i", "n", "e", "d">>
      [] x.t = "null" -> <<"n", "u", "l", "l">>
      [] x.t = "string" -> x.v
      [] x.t = "number" -> x.v
      [] x.t = "boolean" -> x.v
      [] x.t = "array" -> JoinValues(x.v)

\* Array.prototype.join for an array of strings.
RECURSIVE Join(_, _)
Join(strs, sep) ==
    IF strs = <<>> THEN <<>>
    ELSE IF Len(strs) = 1 THEN strs[1]
    ELSE strs[1] \o sep \o Join(Tail(strs), sep)

\* Array.prototype.indexOf(value) >= 0
Contains(xs, x) == \E i \in 1..Len(xs) : xs[i] = x

-----------------------------------------------------------------------------
(* Helper functions of the module (bottom of the source file) *)

\* The backtick character cannot be written in a string literal of this
\* language; the atom below stands for that one character.
Backtick == "BACKTICK"

ShellSpecial == {"\"", "'", Backtick, "\\", "$"}

RECURSIVE EscapeChars(_)
EscapeChars(s) ==
    IF s = <<>> THEN <<>>
    ELSE (IF Head(s) \in ShellSpecial THEN <<"\\", Head(s)>> ELSE <<Head(s)>>)
         \o EscapeChars(Tail(s))

\* A variant that escapes the characters without the enclosing quotes
escapeShellArgUnquoted(arg) ==
    IF ~ \E i \in 1..Len(arg) : arg[i] \in (ShellSpecial \cup {" "})
    THEN arg
    ELSE EscapeChars(arg)

\* escapeShellArg: quote the argument when it holds a special character or a space.
escapeShellArg(arg) ==
    IF ~ \E i \in 1..Len(arg) : arg[i] \in (ShellSpecial \cup {" "})
    THEN arg
    ELSE <<"\"">> \o EscapeChars(arg) \o <<"\"">>

\* stripLeadingDashes: value.replace(/^[-]*/, '')
RECURSIVE stripLeadingDashes(_)
stripLeadingDashes(value) ==
    IF value # <<>> /\ Head(value) = "-" THEN stripLeadingDashes(Tail(value))
    ELSE value

\* buildOption(name, value, escapeArg): escapeArg is "escapeShellArg", or
\* "undefined" or "true" (both select escapeShellArg), or "false" (selects
\* noop, whose result undefined is concatenated as text)
buildOption(name, value, escapeArg) ==
    LET single == Len(name) = 1
        prefix == IF single THEN <<"-">> ELSE <<"-", "-">>
        glue == IF single THEN <<" ">> ELSE <<"=">>
        escaped == IF escapeArg = "false"
                   THEN <<"u", "n", "d", "e", "f", "i", "n", "e", "d">>
                   ELSE escapeShellArg(String(value))
    IN  IF name # <<>> /\ Truthy(value)
        THEN prefix \o name \o glue \o escaped
        ELSE prefix \o name

\* parseFlags(...flags): strings are split into characters, arrays are flattened.
RECURSIVE parseFlags(_)
parseFlags(flags) ==
    IF flags = <<>> THEN <<>>
    ELSE (IF Head(flags).t = "string"
          THEN [i \in 1..Len(Head(flags).v) |-> <<Head(flags).v[i]>>]
          ELSE parseFlags(Head(flags).v))
         \o parseFlags(Tail(flags))

\* unixify(path, false) of the `unixify` package: runs of slashes and
\* backslashes become one '/', then a leading drive ("C:") or "./" is removed.
RECURSIVE NormalizeSlashes(_)
NormalizeSlashes(p) ==
    IF p = <<>> THEN <<>>
    ELSE IF Head(p) \in {"\\", "/"}
         THEN IF Len(p) > 1 /\ p[2] \in {"\\", "/"}
              THEN NormalizeSlashes(Tail(p))
              ELSE <<"/">> \o NormalizeSlashes(Tail(p))
         ELSE <<Head(p)>> \o NormalizeSlashes(Tail(p))

Letters ==
    {"a", "b", "c", "d", "e", "f", "g", "h", "i", "j", "k", "l", "m",
     "n", "o", "p", "q", "r", "s", "t", "u", "v", "w", "x", "y", "z",
     "A", "B", "C", "D", "E", "F", "G", "H", "I", "J", "K", "L", "M",
     "N", "O", "P", "Q", "R", "S", "T", "U", "V", "W", "X", "Y", "Z"}

RECURSIVE LetterPrefixLen(_)
LetterPrefixLen(p) ==
    IF p # <<>> /\ Head(p) \in Letters THEN 1 + LetterPrefixLen(Tail(p)) ELSE 0

unixify(path) ==
    LET n == NormalizeSlashes(path)
        k == LetterPrefixLen(n)
    IN  IF k > 0 /\ Len(n) > k /\ n[k + 1] = ":" THEN SubSeq(n, k + 2, Len(n))
        ELSE IF Len(n) >= 2 /\ n[1] = "." /\ n[2] = "/" THEN SubSeq(n, 3, Len(n))
        ELSE n

-----------------------------------------------------------------------------
(* The options proxy: every trap strips the leading dashes of the property *)

HasKey(obj, k) == \E i \in 1..Len(obj) : obj[i].key = k

IndexOfKey(obj, k) == CHOOSE i \in 1..Len(obj) : obj[i].key = k

\* set trap: target[prop] = value keeps the position of an existing key
ProxySet(obj, prop, value) ==
    LET k == stripLeadingDashes(prop)
    IN  IF HasKey(obj, k)
        THEN [obj EXCEPT ![IndexOfKey(obj, k)].value = value]
        ELSE Append(obj, [key |-> k, value |-> value])

\* deleteProperty trap
ProxyDelete(obj, prop) ==
    LET k == stripLeadingDashes(prop)
    IN  SelectSeq(obj, LAMBDA e : e.key # k)

\* get trap
ProxyGet(obj, prop) ==
    LET k == stripLeadingDashes(prop)
    IN  IF HasKey(obj, k) THEN obj[IndexOfKey(obj, k)].value ELSE Undefined

\* has trap
ProxyHas(obj, prop) == HasKey(obj, stripLeadingDashes(prop))

\* Object.keys(this._options): the own keys of an ordinary object are its
\* array-index keys in ascending numeric order, then the other string keys in
\* creation order.
Digits == {"0", "1", "2", "3", "4", "5", "6", "7", "8", "9"}

DigitValue(c) ==
    CASE c = "0" -> 0 [] c = "1" -> 1 [] c = "2" -> 2 [] c = "3" -> 3
      [] c = "4" -> 4 [] c = "5" -> 5 [] c = "6" -> 6 [] c = "7" -> 7
      [] c = "8" -> 8 [] c = "9" -> 9

IsArrayIndex(k) ==
    /\ k # <<>>
    /\ \A i \in 1..Len(k) : k[i] \in Digits
    /\ (Len(k) = 1 \/ k[1] # "0")

RECURSIVE IndexValue(_)
IndexValue(k) ==
    IF k = <<>> THEN 0
    ELSE IndexValue(SubSeq(k, 1, Len(k) - 1)) * 10 + DigitValue(k[Len(k)])

RECURSIVE SortIndexKeys(_)
SortIndexKeys(ks) ==
    IF ks = <<>> THEN <<>>
    ELSE LET m == CHOOSE i \in 1..Len(ks) :
                      \A j \in 1..Len(ks) : IndexValue(ks[i]) <= IndexValue(ks[j])
         IN  <<ks[m]>> \o SortIndexKeys(SubSeq(ks, 1, m - 1) \o SubSeq(ks, m + 1, Len(ks)))

OwnKeysCreationOrder(obj) == [i \in 1..Len(obj) |-> obj[i].key]

OwnKeys(obj) ==
    LET ks == [i \in 1..Len(obj) |-> obj[i].key]
    IN  SortIndexKeys(SelectSeq(ks, IsArrayIndex))
        \o SelectSeq(ks, LAMBDA k : ~IsArrayIndex(k))

-----------------------------------------------------------------------------
(* Pure parts of the builder's methods *)

\* What a call returns: the call's name ("this" for a configuration method,
\* which returns the builder), the list of strings it returned (for output(),
\* the handlers it was given; for source(), the value it was given) and
\* whether it threw.
Returned(op, val) == [op |-> op, val |-> val, threw |-> FALSE]

\* set(flag) for each parsed flag, in order
RECURSIVE SetEach(_, _)
SetEach(obj, flags) ==
    IF flags = <<>> THEN obj
    ELSE SetEach(ProxySet(obj, Head(flags), Undefined), Tail(flags))

\* unset(option): the delete happens only for a truthy option name
UnsetOption(obj, option) ==
    IF option # <<>> THEN ProxyDelete(obj, option) ELSE obj

RECURSIVE UnsetEach(_, _)
UnsetEach(obj, flags) ==
    IF flags = <<>> THEN obj
    ELSE UnsetEach(UnsetOption(obj, Head(flags)), Tail(flags))

\* exclude(...patterns) / include(...patterns): the entries pushed, arrays
\* being handled by a recursive call on their elements
RECURSIVE FilterEntries(_, _)
FilterEntries(action, patterns) ==
    IF patterns = <<>> THEN <<>>
    ELSE (IF Head(patterns).t = "array"
          THEN FilterEntries(action, Head(patterns).v)
          ELSE <<[action |-> action, pattern |-> Head(patterns)]>>)
         \o FilterEntries(action, Tail(patterns))

\* A variant of patterns() that stores a sign-prefixed string with its sign
RECURSIVE PatternEntriesKeepSign(_)
PatternEntriesKeepSign(patterns) ==
    IF patterns = <<>> THEN <<>>
    ELSE LET pattern == Head(patterns)
             action ==
                 CASE pattern.t = "string" ->
                          IF pattern.v = <<>> THEN <<>> ELSE <<Head(pattern.v)>>
                   [] pattern.t = "object" -> pattern.v[1].v
                   [] OTHER -> <<"?">>
             text == IF pattern.t = "object" THEN pattern.v[2] ELSE pattern
         IN  (IF pattern.t = "array" THEN PatternEntriesKeepSign(pattern.v)
              ELSE IF action = <<"-">> THEN FilterEntries("-", <<text>>)
              ELSE FilterEntries("+", <<text>>))
             \o PatternEntriesKeepSign(Tail(patterns))

\* A variant of patterns() that skips a string without a sign
RECURSIVE PatternEntriesSignedOnly(_)
PatternEntriesSignedOnly(patterns) ==
    IF patterns = <<>> THEN <<>>
    ELSE LET pattern == Head(patterns)
             action ==
                 CASE pattern.t = "string" ->
                          IF pattern.v = <<>> THEN <<>> ELSE <<Head(pattern.v)>>
                   [] pattern.t = "object" -> pattern.v[1].v
                   [] OTHER -> <<"?">>
             text ==
                 CASE pattern.t = "string" ->
                          IF pattern.v = <<>> THEN Str(<<>>) ELSE Str(Tail(pattern.v))
                   [] pattern.t = "object" -> pattern.v[2]
                   [] OTHER -> pattern
         IN  (IF pattern.t = "array" THEN PatternEntriesSignedOnly(pattern.v)
              ELSE IF action = <<"-">> THEN FilterEntries("-", <<text>>)
              ELSE IF action = <<"+">> THEN FilterEntries("+", <<text>>)
              ELSE <<>>)
             \o PatternEntriesSignedOnly(Tail(patterns))

\* patterns(...patterns): the entries pushed through exclude()/include()
RECURSIVE PatternEntries(_)
PatternEntries(patterns) ==
    IF patterns = <<>> THEN <<>>
    ELSE LET pattern == Head(patterns)
             action ==
                 CASE pattern.t = "string" ->
                          IF pattern.v = <<>> THEN <<>> ELSE <<Head(pattern.v)>>
                   [] pattern.t = "object" -> pattern.v[1].v
                   [] OTHER -> <<"?">>
             text ==
                 CASE pattern.t = "string" ->
                          IF pattern.v = <<>> THEN Str(<<>>) ELSE Str(Tail(pattern.v))
                   [] pattern.t = "object" -> pattern.v[2]
                   [] OTHER -> pattern
         IN  (IF pattern.t = "array" THEN PatternEntries(pattern.v)
              ELSE IF action = <<"-">> THEN FilterEntries("-", <<text>>)
              ELSE FilterEntries("+", <<text>>))
             \o PatternEntries(Tail(patterns))

\* The list accessor created by createListAccessor, applied to a value: the
\* list afterwards and whether the call threw.  An array is walked element by
\* element; an element that throws ends the walk with the earlier pushes made.
RECURSIVE ListAccess(_, _)
RECURSIVE ListAccessEach(_, _)
ListAccessEach(list, values) ==
    IF values = <<>> THEN [list |-> list, threw |-> FALSE]
    ELSE LET first == ListAccess(list, Head(values))
         IN  IF first.threw THEN first ELSE ListAccessEach(first.list, Tail(values))

\* A variant of the accessor without the membership test
ListAccessAppend(list, value) ==
    CASE value.t = "array" -> ListAccessEach(list, value.v)
      [] value.t = "string" -> [list |-> Append(list, value.v), threw |-> FALSE]
      [] OTHER -> [list |-> list, threw |-> TRUE]

\* A variant of the accessor that skips a value that is no string
ListAccessLenient(list, value) ==
    CASE value.t = "array" -> ListAccessEach(list, value.v)
      [] value.t = "string" ->
             [list |-> IF Contains(list, value.v) THEN list ELSE Append(list, value.v),
              threw |-> FALSE]
      [] OTHER -> [list |-> list, threw |-> FALSE]

ListAccess(list, value) ==
    CASE value.t = "array" -> ListAccessEach(list, value.v)
      [] value.t = "string" ->
             [list |-> IF Contains(list, value.v) THEN list ELSE Append(list, value.v),
              threw |-> FALSE]
      [] OTHER -> [list |-> list, threw |-> TRUE]

\* A variant of the split that clusters every one-character key
ShortKeysAnyValue(obj) ==
    SelectSeq(OwnKeys(obj), LAMBDA key : Len(key) = 1)

\* The split of the options into short and long ones made by args()
ShortKeys(obj) ==
    SelectSeq(OwnKeys(obj),
              LAMBDA key : Len(key) = 1 /\ ProxyGet(obj, key).t = "undefined")

RECURSIVE LongTokens(_, _)
LongTokens(obj, keys) ==
    IF keys = <<>> THEN <<>>
    ELSE LET key == Head(keys)
             value == ProxyGet(obj, key)
             escaped(val) == buildOption(key, val, "escapeShellArg")
         IN  (IF Len(key) = 1 /\ value.t = "undefined" THEN <<>>
              ELSE IF value.t = "array" THEN [i \in 1..Len(value.v) |-> escaped(value.v[i])]
              ELSE <<buildOption(key, value, "escapeShellArg")>>)
             \o LongTokens(obj, Tail(keys))

FilterToken(entry) ==
    buildOption(IF entry.action = "-"
                THEN <<"e", "x", "c", "l", "u", "d", "e">>
                ELSE <<"i", "n", "c", "l", "u", "d", "e">>,
                entry.pattern, "undefined")

\* args(): the argument list for the configuration
args(options, patterns, sources, destination) ==
    LET short == ShortKeys(options)
        long == LongTokens(options, OwnKeys(options))
    IN  (IF short # <<>> THEN <<(<<"-">> \o Join(short, <<>>))>> ELSE <<>>)
        \o long
        \o [i \in 1..Len(patterns) |-> FilterToken(patterns[i])]
        \o [i \in 1..Len(sources) |-> unixify(sources[i])]
        \o (IF Truthy(destination) THEN <<unixify(destination.v)>> ELSE <<>>)

\* command(): the executable, a space and the arguments joined by spaces
command(executable, argv) == executable \o <<" ">> \o Join(argv, <<" ">>)

\* A variant of the multi-value setter in which a scalar replaces the list
RECURSIVE MultiOptionReplace(_, _, _)
MultiOptionReplace(obj, option, value) ==
    IF ~Truthy(value) THEN UnsetOption(obj, option)
    ELSE IF value.t = "array"
         THEN IF value.v = <<>> THEN obj
              ELSE MultiOptionReplace(MultiOptionReplace(obj, option, Head(value.v)),
                                      option, Arr(Tail(value.v)))
    ELSE ProxySet(obj, option, Arr(<<value>>))

\* The method installed by exposeMultiOption(option, name), called with one
\* argument: a falsy value unsets, an array is fed to the method element by
\* element, a scalar is appended to the stored list.
RECURSIVE MultiOption(_, _, _)
MultiOption(obj, option, value) ==
    IF ~Truthy(value) THEN UnsetOption(obj, option)
    ELSE IF value.t = "array"
         THEN IF value.v = <<>> THEN obj
              ELSE MultiOption(MultiOption(obj, option, Head(value.v)),
                               option, Arr(Tail(value.v)))
    ELSE LET current == ProxyGet(obj, option)
         IN  ProxySet(obj, option,
                      IF ~Truthy(current) THEN Arr(<<value>>)
                      ELSE IF current.t # "array" THEN Arr(<<current, value>>)
                      ELSE Arr(current.v \o <<value>>))

\* A variant of the shorthand method that sets whatever its argument is
ShortOptionAlwaysSet(obj, option, set) == ProxySet(obj, option, Undefined)

\* The method installed by exposeShortOption(option, name); its parameter
\* defaults to true when the argument is omitted or undefined
ShortOption(obj, option, set) ==
    IF set = Undefined \/ Truthy(set)
    THEN ProxySet(obj, option, Undefined)
    ELSE UnsetOption(obj, option)

\* The options behind the shorthand methods
ShorthandOptions ==
    [delete |-> <<"d", "e", "l", "e", "t", "e">>,
     progress |-> <<"p", "r", "o", "g", "r", "e", "s", "s">>,
     archive |-> <<"a">>, compress |-> <<"z">>, recursive |-> <<"r">>,
     update |-> <<"u">>, quiet |-> <<"q">>, dirs |-> <<"d">>,
     links |-> <<"l">>, dry |-> <<"n">>, hardLinks |-> <<"H">>,
     perms |-> <<"p">>, executability |-> <<"E">>, group |-> <<"g">>,
     owner |-> <<"o">>, acls |-> <<"A">>, xattrs |-> <<"X">>,
     devices |-> <<"d", "e", "v", "i", "c", "e", "s">>,
     specials |-> <<"s", "p", "e", "c", "i", "a", "l", "s">>,
     times |-> <<"t">>]

\* The method installed by exposeLongOption(option, name), called with one
\* argument
LongOption(obj, option, value) ==
    IF Truthy(value) THEN ProxySet(obj, option, value) ELSE UnsetOption(obj, option)

-----------------------------------------------------------------------------
(* Inputs *)

\* which('rsync'): the executable found on the path
S_rsync == <<"r", "s", "y", "n", "c">>

\* process.cwd(): the directory of the running process
S_chmod == <<"c", "h", "m", "o", "d">>

ProcessCwd == <<"/", "w">>

OptionNames == {<<"a">>, <<"4">>, <<"r", "s", "h">>, <<"-", "-", "r", "s", "h">>}

OptionValues == {Undefined, Str(<<"x">>)}

FlagArgs ==
    {<<Str(<<"a", "4">>)>>,
     <<Str(<<"4">>), Str(<<"a">>)>>,
     <<Arr(<<Str(<<"a">>), Arr(<<Str(<<"4">>)>>)>>)>>}

PatternTexts == {<<"a">>, <<"b", " ", "c">>, <<>>}

FilterArgs ==
    {<<Str(p)>> : p \in PatternTexts}
    \cup {<<Str(<<"a">>), Arr(<<Str(<<"b", " ", "c">>)>>)>>}

PatternsArgs ==
    {<<Str(<<sign>> \o p)>> : sign \in {"+", "-"}, p \in PatternTexts}
    \cup {<<Obj(Str(<<sign>>), Str(p))>> : sign \in {"+", "-"}, p \in PatternTexts}
    \cup {<<Str(<<"*", "a">>)>>,
          <<Arr(<<Str(<<"-", "a">>), Obj(Str(<<"+">>), Str(<<"b", " ", "c">>))>>)>>,
          <<Arr(<<Arr(<<Str(<<"+", "a">>)>>), Str(<<"-", "b", " ", "c">>)>>)>>}

SourceArgs ==
    {Str(<<"s">>), Str(<<"C", ":", "\\", "a">>), Str(<<"a", " ", "b">>),
     Arr(<<Str(<<"s">>), Str(<<"C", ":", "\\", "a">>)>>),
     Arr(<<Str(<<"s">>), Str(<<"s">>), Str(<<"a", " ", "b">>)>>),
     Arr(<<Arr(<<Str(<<"a", " ", "b">>)>>), Str(<<"s">>)>>),
     Arr(<<Str(<<"s">>), Num(<<"4", "2">>)>>),
     Num(<<"4", "2">>)}

DestinationArgs == {Str(<<>>), Str(<<"d">>), Str(<<"d", "$">>)}

-----------------------------------------------------------------------------
(* The builder after construction *)

Init ==
    /\ _executable = S_rsync
    /\ _sources = <<>>
    /\ _destination = Str(<<>>)
    /\ _patterns = <<>>
    /\ _options = <<>>
    /\ _outputHandlers = [stdout |-> "noop", stderr |-> "noop"]
    /\ _cwd = ProcessCwd
    /\ _env = "process.env"
    /\ ret = Returned("new", <<>>)
    /\ runs = <<>>

-----------------------------------------------------------------------------
(* Configuration methods *)

\* set(option, value)
Set(option, value) ==
    /\ _options' = ProxySet(_options, option, value)
    /\ Len(_options') <= MaxOptions
    /\ ret' = Returned("this", <<>>)
    /\ UNCHANGED <<_executable, _sources, _destination, _patterns,
                   _outputHandlers, _cwd, _env, runs>>

\* unset(option)
Unset(option) ==
    /\ _options' = UnsetOption(_options, option)
    /\ ret' = Returned("this", <<>>)
    /\ UNCHANGED <<_executable, _sources, _destination, _patterns,
                   _outputHandlers, _cwd, _env, runs>>

\* setFlags(...flags)
SetFlags(flags) ==
    /\ _options' = SetEach(_options, parseFlags(flags))
    /\ Len(_options') <= MaxOptions
    /\ ret' = Returned("this", <<>>)
    /\ UNCHANGED <<_executable, _sources, _destination, _patterns,
                   _outputHandlers, _cwd, _env, runs>>

\* unsetFlags(...flags)
UnsetFlags(flags) ==
    /\ _options' = UnsetEach(_options, parseFlags(flags))
    /\ ret' = Returned("this", <<>>)
    /\ UNCHANGED <<_executable, _sources, _destination, _patterns,
                   _outputHandlers, _cwd, _env, runs>>

\* isSet(option)
IsSet(option) ==
    /\ ret' = Returned("isSet", <<Str(option), Boolean(ProxyHas(_options, option))>>)
    /\ UNCHANGED <<store, runs>>

\* option(name)
Option(name) ==
    /\ ret' = Returned("option", <<Str(name), ProxyGet(_options, name)>>)
    /\ UNCHANGED <<store, runs>>

\* patterns(...patterns)
Patterns(patterns) ==
    /\ _patterns' = _patterns \o PatternEntries(patterns)
    /\ Len(_patterns') <= MaxPatterns
    /\ ret' = Returned("patterns", patterns)
    /\ UNCHANGED <<_executable, _sources, _destination, _options,
                   _outputHandlers, _cwd, _env, runs>>

\* exclude(...patterns)
Exclude(patterns) ==
    /\ _patterns' = _patterns \o FilterEntries("-", patterns)
    /\ Len(_patterns') <= MaxPatterns
    /\ ret' = Returned("this", <<>>)
    /\ UNCHANGED <<_executable, _sources, _destination, _options,
                   _outputHandlers, _cwd, _env, runs>>

\* include(...patterns)
Include(patterns) ==
    /\ _patterns' = _patterns \o FilterEntries("+", patterns)
    /\ Len(_patterns') <= MaxPatterns
    /\ ret' = Returned("this", <<>>)
    /\ UNCHANGED <<_executable, _sources, _destination, _options,
                   _outputHandlers, _cwd, _env, runs>>

\* source(value)
Source(value) ==
    LET result == ListAccess(_sources, value)
    IN  /\ _sources' = result.list
        /\ Len(_sources') <= MaxSources
        /\ ret' = [op |-> "source", val |-> <<value>>, threw |-> result.threw]
        /\ UNCHANGED <<_executable, _destination, _patterns, _options,
                       _outputHandlers, _cwd, _env, runs>>

\* destination(value)
Destination(value) ==
    /\ _destination' = value
    /\ ret' = Returned("this", <<>>)
    /\ UNCHANGED <<_executable, _sources, _patterns, _options,
                   _outputHandlers, _cwd, _env, runs>>

\* A variant of args() that consumes a source, as a shift() on the list would
ArgsDraining ==
    /\ ret' = Returned("args", args(_options, _patterns, _sources, _destination))
    /\ _sources' = IF _sources = <<>> THEN _sources ELSE Tail(_sources)
    /\ UNCHANGED <<_executable, _destination, _patterns, _options,
                   _outputHandlers, _cwd, _env, runs>>

\* args()
Args ==
    /\ ret' = Returned("args", args(_options, _patterns, _sources, _destination))
    /\ UNCHANGED <<store, runs>>

\* command()
Command ==
    /\ ret' = Returned("command",
                       <<command(_executable,
                                 args(_options, _patterns, _sources, _destination))>>)
    /\ UNCHANGED <<store, runs>>

\* executable(value), created by createValueAccessor
Executable(value) ==
    /\ _executable' = value
    /\ ret' = Returned("this", <<>>)
    /\ UNCHANGED <<_sources, _destination, _patterns, _options,
                   _outputHandlers, _cwd, _env, runs>>

\* path.posix.resolve(cwd) against the directory of the running process
PosixResolve(dir) ==
    IF dir # <<>> /\ Head(dir) = "/" THEN dir ELSE ProcessCwd \o <<"/">> \o dir

\* cwd(cwd)
Cwd(cwd) ==
    /\ _cwd' = IF cwd # <<>> THEN PosixResolve(cwd) ELSE _cwd
    /\ ret' = Returned("cwd", <<_cwd'>>)
    /\ UNCHANGED <<_executable, _sources, _destination, _patterns, _options,
                   _outputHandlers, _env, runs>>

\* env(env)
Env(env) ==
    /\ _env' = IF env # "undefined" THEN env ELSE _env
    /\ ret' = Returned("env", <<>>)
    /\ UNCHANGED <<_executable, _sources, _destination, _patterns, _options,
                   _outputHandlers, _cwd, runs>>

\* chmod(value), the method exposeMultiOption('chmod', 'chmod') installs
Chmod(value) ==
    /\ _options' = MultiOption(_options, S_chmod, value)
    /\ Len(_options') <= MaxOptions
    /\ LET stored == ProxyGet(_options', S_chmod)
       IN  stored.t = "array" => Len(stored.v) <= MaxValues
    /\ ret' = Returned("this", <<>>)
    /\ UNCHANGED <<_executable, _sources, _destination, _patterns,
                   _outputHandlers, _cwd, _env, runs>>

\* chmod() without an argument
ChmodGet ==
    /\ ret' = Returned("chmod", <<ProxyGet(_options, S_chmod)>>)
    /\ UNCHANGED <<store, runs>>

\* archive(), compress(false), ...: a method that exposeShortOption installs
Shorthand(name, set) ==
    /\ _options' = ShortOption(_options, ShorthandOptions[name], set)
    /\ Cardinality({i \in 1..Len(_options') : _options'[i].value = Undefined}) <= MaxFlags
    /\ ret' = Returned("this", <<>>)
    /\ UNCHANGED <<_executable, _sources, _destination, _patterns,
                   _outputHandlers, _cwd, _env, runs>>

\* shell(value), the method exposeLongOption('rsh', 'shell') installs
Shell(value) ==
    /\ _options' = LongOption(_options, <<"r", "s", "h">>, value)
    /\ Len(_options') <= MaxOptions
    /\ ret' = Returned("this", <<>>)
    /\ UNCHANGED <<_executable, _sources, _destination, _patterns,
                   _outputHandlers, _cwd, _env, runs>>

\* flags(flags): the first argument alone is handed to setFlags, a missing or
\* non-iterable one makes parseFlags throw; nothing is returned
Flags(flags) ==
    LET first == IF flags = <<>> THEN Undefined ELSE Head(flags)
        threw == first.t \notin {"string", "array"}
    IN  /\ _options' = IF threw THEN _options
                       ELSE SetEach(_options, parseFlags(<<first>>))
        /\ Len(_options') <= MaxOptions
        /\ ret' = [op |-> "flags", val |-> <<Undefined>>, threw |-> threw]
        /\ UNCHANGED <<_executable, _sources, _destination, _patterns,
                       _outputHandlers, _cwd, _env, runs>>

-----------------------------------------------------------------------------
(* Output handlers *)

\* Handlers are named; "undefined" is the value of a missing argument.
Functions == {"noop", "f", "g", "A", "B"}

IsFunction(h) == h \in Functions

At(list, i) == IF i <= Len(list) THEN list[i] ELSE "undefined"

\* a || b on handler values
OrElse(a, b) == IF a # "undefined" THEN a ELSE b

\* output(stdout, stderr) with the arguments of the call: call.form is "args"
\* for a plain argument list and "array" for one array argument.
output(handlers, call) ==
    LET stdout == IF call.form = "array" THEN At(call.list, 2) ELSE At(call.list, 1)
        stderr == IF call.form = "array" THEN At(call.list, 1) ELSE At(call.list, 2)
        first == IF IsFunction(stdout)
                 THEN [handlers EXCEPT !.stdout = stdout] ELSE handlers
    IN  IF IsFunction(stderr) THEN [first EXCEPT !.stderr = stdout] ELSE first

OutputCalls ==
    {[form |-> "args", list |-> <<"f", "g">>],
     [form |-> "array", list |-> <<"f", "g">>],
     [form |-> "array", list |-> <<"f">>]}

\* output(...)
Output(call) ==
    /\ _outputHandlers' = output(_outputHandlers, call)
    /\ ret' = Returned("output", [i \in 1..Len(call.list) |-> <<call.list[i]>>])
    /\ UNCHANGED <<_executable, _sources, _destination, _patterns, _options,
                   _cwd, _env, runs>>

-----------------------------------------------------------------------------
(* Execution: execute(opts) and the events of the spawned process *)

\* An Error object: its message and its `code` property (Undefined when the
\* error has none).
Err(message, code) == [t |-> "error", v |-> <<Str(message), code>>]

ErrorCode(e) == e.v[2]

\* The error the platform emits on the process when it cannot be spawned
SpawnError == Err(<<"s", "p", "a", "w", "n", " ", "E", "N", "O", "E", "N", "T">>,
                  Str(<<"E", "N", "O", "E", "N", "T">>))

\* The exception spawn() throws for the failures it does not report by event
SpawnException == Err(<<"s", "p", "a", "w", "n", " ", "E", "2", "B", "I", "G">>,
                      Str(<<"E", "2", "B", "I", "G">>))

\* The TypeError of stream.on('data', listener) for a listener that is no function
ListenerTypeError ==
    Err(<<"l", "i", "s", "t", "e", "n", "e", "r">>,
        Str(<<"E", "R", "R", "_", "I", "N", "V", "A", "L", "I", "D", "_",
              "A", "R", "G", "_", "T", "Y", "P", "E">>))

S_exited == <<"r", "s", "y", "n", "c", " ", "e", "x", "i", "t", "e", "d", " ",
              "w", "i", "t", "h", " ", "c", "o", "d", "e", " ">>

Pending == [state |-> "pending", value |-> Undefined]

\* A variant of resolve/reject without the settle-once rule of promises
SettleAgain(promise, state, value) == [state |-> state, value |-> value]

\* resolve(value) / reject(value) of a promise: only a pending promise settles
Settle(promise, state, value) ==
    IF promise.state = "pending" THEN [state |-> state, value |-> value]
    ELSE promise

\* A variant in which the exception escapes execute() instead of rejecting
ExecutorThrewUncaught(run, err, kind) == [run EXCEPT !.thrown = TRUE]

\* An exception thrown inside the executor of `new Promise` rejects the promise
ExecutorThrew(run, err, kind) ==
    [run EXCEPT !.inner = Settle(run.inner, "rejected", err),
                !.cause = [kind |-> kind, code |-> Undefined]]

\* The 'close' listener: code => { if (code) return reject(new Error(...)); resolve(code) }
OnClose(promise, code) ==
    IF Truthy(code)
    THEN Settle(promise, "rejected", Err(S_exited \o String(code), Undefined))
    ELSE Settle(promise, "fulfilled", code)

\* The 'error' listener: reject
OnError(promise, err) == Settle(promise, "rejected", err)

ExecuteOpts ==
    {[stdoutHandler |-> "undefined", stderrHandler |-> "undefined"],
     [stdoutHandler |-> "A", stderrHandler |-> "B"]}

\* What spawn() does: it throws, or it returns a process
SpawnOutcomes == {"throws", "spawned"}

\* The exit codes of a 'close' event: a number, or null for a process ended by
\* a signal
CloseCodes == {Num(<<"0">>), Num(<<"2">>), Null}

\* The run created by execute(): the promise executor spawns the process and
\* attaches the listeners.
NewRun(opts, asked, handlers, launch, spawnArgs) ==
    LET base == [opts |-> opts,
                 asked |-> asked,
                 spawn |-> spawnArgs,
                 launch |-> launch,
                 listeners |-> [stdout |-> "none", stderr |-> "none",
                                completion |-> FALSE],
                 inner |-> Pending,
                 outer |-> Pending,
                 cause |-> [kind |-> "none", code |-> Undefined],
                 thrown |-> FALSE,
                 errored |-> FALSE,
                 closed |-> FALSE,
                 events |-> 0,
                 log |-> <<>>]
    IN  IF launch = "throws" THEN ExecutorThrew(base, SpawnException, "throw")
        ELSE IF ~IsFunction(handlers.stderr)
             THEN ExecutorThrew([base EXCEPT !.listeners.stdout = handlers.stdout],
                                ListenerTypeError, "listener")
        ELSE [base EXCEPT !.listeners = [stdout |-> handlers.stdout,
                                         stderr |-> handlers.stderr,
                                         completion |-> TRUE]]

\* execute(opts)
Execute(opts, launch) ==
    LET handlers ==
            output(_outputHandlers,
                   [form |-> "args",
                    list |-> <<OrElse(opts.stdoutHandler, _outputHandlers.stdout),
                               OrElse(opts.stderrHandler, _outputHandlers.stderr)>>])
        asked == IF ret.op = "output" THEN ret.val ELSE <<>>
        spawnArgs == [file |-> _executable,
                      args |-> args(_options, _patterns, _sources, _destination),
                      cwd |-> _cwd,
                      env |-> _env,
                      shell |-> TRUE]
    IN  /\ _outputHandlers' = handlers
        /\ runs' = Append(runs, NewRun(opts, asked, handlers, launch, spawnArgs))
        /\ ret' = Returned("execute", <<>>)
        /\ UNCHANGED <<_executable, _sources, _destination, _patterns, _options,
                       _cwd, _env>>

RECURSIVE TotalEvents(_)
TotalEvents(rs) ==
    IF rs = <<>> THEN 0 ELSE Head(rs).events + TotalEvents(Tail(rs))

\* A process exists for run i and the event budget is not used up
CanEmit(i) ==
    /\ i \in 1..Len(runs)
    /\ runs[i].launch # "throws"
    /\ TotalEvents(runs) < MaxEvents

\* The cause of a settlement, recorded when the event settles the promise
Caused(run, promise, kind, code) ==
    IF run.inner.state = "pending" /\ promise.state # "pending"
    THEN [kind |-> kind, code |-> code]
    ELSE run.cause

\* A variant of the delivery that looks the handler up when the chunk arrives
DataLateBound(i, channel) ==
    /\ CanEmit(i)
    /\ runs' = [runs EXCEPT ![i].events = @ + 1,
                            ![i].log = Append(@, [channel |-> channel,
                                                  to |-> _outputHandlers[channel]])]
    /\ UNCHANGED <<store, ret>>

\* A chunk arrives on a channel of process i: its 'data' listener is called
Data(i, channel) ==
    /\ CanEmit(i)
    /\ runs' = [runs EXCEPT ![i].events = @ + 1,
                            ![i].log = Append(@, [channel |-> channel,
                                                  to |-> runs[i].listeners[channel]])]
    /\ UNCHANGED <<store, ret>>

\* Process i emits 'error'
ProcError(i) ==
    /\ CanEmit(i)
    /\ LET run == runs[i]
           promise == IF run.listeners.completion
                      THEN OnError(run.inner, SpawnError) ELSE run.inner
       IN  runs' = [runs EXCEPT ![i].events = @ + 1,
                                ![i].errored = TRUE,
                                ![i].inner = promise,
                                ![i].cause = Caused(run, promise, "error", Undefined)]
    /\ UNCHANGED <<store, ret>>

\* Process i emits 'close' with an exit code
ProcClose(i, code) ==
    /\ CanEmit(i)
    /\ LET run == runs[i]
           promise == IF run.listeners.completion
                      THEN OnClose(run.inner, code) ELSE run.inner
       IN  runs' = [runs EXCEPT ![i].events = @ + 1,
                                ![i].closed = TRUE,
                                ![i].inner = promise,
                                ![i].cause = Caused(run, promise, "close", code)]
    /\ UNCHANGED <<store, ret>>

\* The reaction of .catch(err => Promise.reject(err)): the returned promise
\* takes the outcome of the executor's promise
Propagate(i) ==
    /\ i \in 1..Len(runs)
    /\ runs[i].inner.state # "pending"
    /\ runs[i].outer.state = "pending"
    /\ runs' = [runs EXCEPT ![i].outer = Settle(@, runs[i].inner.state,
                                                runs[i].inner.value)]
    /\ UNCHANGED <<store, ret>>

-----------------------------------------------------------------------------
(* Rsync.build(options) *)

\* new Rsync()
NewCommand ==
    [sources |-> <<>>, destination |-> Str(<<>>), patterns |-> <<>>,
     options |-> <<>>,
     outputHandlers |-> [stdout |-> "noop", stderr |-> "noop"],
     runs |-> <<>>, threw |-> FALSE]

\* The properties of a builder that are functions, among the keys modelled
\* ("foo" is no property, "_sources" is a property that is not a function)
IsMethod(key) ==
    key \in {"source", "destination", "flags", "exclude", "chmod", "archive",
             "shell", "execute"}

\* command[key](value)
Invoke(cmd, key, value, launch) ==
    CASE key = "source" ->
             LET result == ListAccess(cmd.sources, value)
             IN  [cmd EXCEPT !.sources = result.list, !.threw = result.threw]
      [] key = "destination" -> [cmd EXCEPT !.destination = value]
      [] key = "flags" ->
             IF value.t \in {"string", "array"}
             THEN [cmd EXCEPT !.options = SetEach(@, parseFlags(<<value>>))]
             ELSE [cmd EXCEPT !.threw = TRUE]
      [] key = "exclude" ->
             [cmd EXCEPT !.patterns = @ \o FilterEntries("-", <<value>>)]
      [] key = "chmod" -> [cmd EXCEPT !.options = MultiOption(@, S_chmod, value)]
      [] key = "archive" -> [cmd EXCEPT !.options = ShortOption(@, <<"a">>, value)]
      [] key = "shell" ->
             [cmd EXCEPT !.options = LongOption(@, <<"r", "s", "h">>, value)]
      [] key = "execute" ->
             LET opts == [stdoutHandler |-> "undefined", stderrHandler |-> "undefined"]
                 handlers ==
                     output(cmd.outputHandlers,
                            [form |-> "args",
                             list |-> <<OrElse(opts.stdoutHandler, cmd.outputHandlers.stdout),
                                        OrElse(opts.stderrHandler, cmd.outputHandlers.stderr)>>])
                 spawnArgs == [file |-> S_rsync,
                               args |-> args(cmd.options, cmd.patterns, cmd.sources,
                                             cmd.destination),
                               cwd |-> ProcessCwd,
                               env |-> "process.env",
                               shell |-> TRUE]
             IN  [cmd EXCEPT !.outputHandlers = handlers,
                             !.runs = Append(@, NewRun(opts, <<>>, handlers, launch,
                                                       spawnArgs))]

\* A variant of build that stops at the first key that names no method
RECURSIVE buildUntilUnknown(_, _, _)
buildUntilUnknown(cmd, entries, launch) ==
    IF entries = <<>> \/ cmd.threw THEN cmd
    ELSE LET key == Head(entries).key
             value == Head(entries).value
         IN  IF IsMethod(key)
             THEN buildUntilUnknown(Invoke(cmd, key, value, launch), Tail(entries), launch)
             ELSE cmd

\* Rsync.build(options): the forEach over Object.keys(options), which an
\* exception of a called method ends
RECURSIVE build(_, _, _)
build(cmd, entries, launch) ==
    IF entries = <<>> \/ cmd.threw THEN cmd
    ELSE LET key == Head(entries).key
             value == Head(entries).value
         IN  build(IF IsMethod(key) THEN Invoke(cmd, key, value, launch) ELSE cmd,
                   Tail(entries), launch)

\* Rsync.build(options), the step that creates the builder in place of a
\* constructor call: when a method throws no builder is returned, and a
\* process spawned before stays spawned
Build(options, launch) ==
    LET cmd == build(NewCommand, options, launch)
    IN  /\ ret.op = "new"
        /\ ret' = [op |-> "build", val |-> options, threw |-> cmd.threw]
        /\ runs' = cmd.runs
        /\ IF cmd.threw
           THEN UNCHANGED store
           ELSE /\ _sources' = cmd.sources
                /\ _destination' = cmd.destination
                /\ _patterns' = cmd.patterns
                /\ _options' = cmd.options
                /\ _outputHandlers' = cmd.outputHandlers
                /\ _executable' = S_rsync
                /\ _cwd' = ProcessCwd
                /\ _env' = "process.env"

-----------------------------------------------------------------------------
(* The callback-based builder (rsync.js) *)

\* a plain object with the given own properties, in creation order
Dict(entries) == [t |-> "object", v |-> entries]

\* obj[k] = value on a plain object
Put(obj, k, value) ==
    IF HasKey(obj, k)
    THEN [obj EXCEPT ![IndexOfKey(obj, k)].value = value]
    ELSE Append(obj, [key |-> k, value |-> value])

\* set(option, value): a name that is empty once its dashes are stripped is
\* not stored; a falsy value is stored as null
LegacySetOption(obj, option, value) ==
    LET name == stripLeadingDashes(option)
    IN  IF name # <<>>
        THEN Put(obj, name, IF Truthy(value) THEN value ELSE Null)
        ELSE obj

\* unset(option)
LegacyUnsetOption(obj, option) ==
    LET name == stripLeadingDashes(option)
    IN  IF name # <<>> /\ HasKey(obj, name)
        THEN SelectSeq(obj, LAMBDA e : e.key # name)
        ELSE obj

\* The object that flags() makes of an array: obj[f] = set for each element
RECURSIVE FlagsObject(_, _, _)
FlagsObject(obj, elements, set) ==
    IF elements = <<>> THEN obj
    ELSE FlagsObject(Put(obj, String(Head(elements)), set), Tail(elements), set)

\* for (key in flags): set or unset by the key's value
RECURSIVE LegacyFlagsEach(_, _, _)
LegacyFlagsEach(obj, flags, keys) ==
    IF keys = <<>> THEN obj
    ELSE LET key == Head(keys)
             value == flags[IndexOfKey(flags, key)].value
         IN  LegacyFlagsEach(IF Truthy(value)
                             THEN LegacySetOption(obj, key, Undefined)
                             ELSE LegacyUnsetOption(obj, key),
                             flags, Tail(keys))

\* flags(flags, set): with more than one argument the arguments become the
\* array of flags, a trailing boolean being taken off as `set`
LegacyFlagsOf(obj, arguments) ==
    IF arguments = <<>> THEN obj
    ELSE LET last == arguments[Len(arguments)]
             many == Len(arguments) > 1
             set == IF many /\ last.t = "boolean" THEN last ELSE Boolean(TRUE)
             given == IF ~many THEN arguments[1]
                      ELSE IF last.t = "boolean"
                           THEN Arr(SubSeq(arguments, 1, Len(arguments) - 1))
                           ELSE Arr(arguments)
             split == IF given.t = "string"
                      THEN LET text == stripLeadingDashes(given.v)
                           IN  Arr([i \in 1..Len(text) |-> Str(<<text[i]>>)])
                      ELSE given
             object == IF split.t = "array"
                       THEN FlagsObject(<<>>, split.v, set)
                       ELSE split.v
         IN  LegacyFlagsEach(obj, object, OwnKeys(object))

\* set(option, value) on the callback-based builder
LegacySet(option, value) ==
    /\ _options' = LegacySetOption(_options, option, value)
    /\ Len(_options') <= MaxOptions
    /\ ret' = Returned("this", <<>>)
    /\ UNCHANGED <<_executable, _sources, _destination, _patterns,
                   _outputHandlers, _cwd, _env, runs>>

\* unset(option) on the callback-based builder
LegacyUnset(option) ==
    /\ _options' = LegacyUnsetOption(_options, option)
    /\ ret' = Returned("this", <<>>)
    /\ UNCHANGED <<_executable, _sources, _destination, _patterns,
                   _outputHandlers, _cwd, _env, runs>>

\* flags(...arguments) on the callback-based builder
LegacyFlags(arguments) ==
    /\ _options' = LegacyFlagsOf(_options, arguments)
    /\ Len(_options') <= MaxOptions
    /\ ret' = Returned("flags", arguments)
    /\ UNCHANGED <<_executable, _sources, _destination, _patterns,
                   _outputHandlers, _cwd, _env, runs>>

-----------------------------------------------------------------------------
(* Specifications *)

ExecutableArgs == {S_rsync, <<"/", "r">>}

CwdArgs == {<<>>, <<"s", "u", "b">>}

EnvArgs == {"undefined", "env"}

OptionNext ==
    \/ \E option \in OptionNames, value \in OptionValues : Set(option, value)
    \/ \E option \in OptionNames : Unset(option)
    \/ \E flags \in FlagArgs : SetFlags(flags)
    \/ \E flags \in FlagArgs : UnsetFlags(flags)

FilterNext ==
    \/ \E patterns \in PatternsArgs : Patterns(patterns)
    \/ \E patterns \in FilterArgs : Exclude(patterns)
    \/ \E patterns \in FilterArgs : Include(patterns)

PathNext ==
    \/ \E value \in SourceArgs : Source(value)
    \/ \E value \in DestinationArgs : Destination(value)
    \/ \E value \in ExecutableArgs : Executable(value)
    \/ \E cwd \in CwdArgs : Cwd(cwd)
    \/ \E env \in EnvArgs : Env(env)

ReadNext ==
    \/ Args
    \/ Command

RunNext ==
    \/ \E call \in OutputCalls : Output(call)
    \/ /\ Len(runs) < MaxRuns
       /\ \E opts \in ExecuteOpts, launch \in SpawnOutcomes : Execute(opts, launch)
    \/ \E i \in 1..MaxRuns, channel \in {"stdout", "stderr"} : Data(i, channel)
    \/ \E i \in 1..MaxRuns : ProcError(i)
    \/ \E i \in 1..MaxRuns, code \in CloseCodes : ProcClose(i, code)
    \/ \E i \in 1..MaxRuns : Propagate(i)

Next ==
    \/ OptionNext
    \/ FilterNext
    \/ PathNext
    \/ ReadNext
    \/ RunNext
    \/ \E flags \in FlagArgs : Flags(flags)
    \/ \E value \in OptionValues : Chmod(value)
    \/ ChmodGet
    \/ \E value \in OptionValues : Shell(value)
    \/ \E name \in DOMAIN ShorthandOptions, set \in {Undefined, Boolean(FALSE)} :
          Shorthand(name, set)

\* The whole builder
Spec == Init /\ [][Next]_vars

\* Sample configurations that Spec reaches, from which the component
\* specifications below start.
SampleOptions ==
    <<[key |-> <<"a">>, value |-> Undefined],
      [key |-> <<"r", "s", "h">>, value |-> Str(<<"x">>)]>>

SamplePatterns ==
    <<[action |-> "-", pattern |-> Str(<<"a">>)],
      [action |-> "+", pattern |-> Str(<<"b", " ", "c">>)]>>

SampleSources == <<(<<"s">>), <<"C", ":", "\\", "a">>>>

SampleDestination == Str(<<"d">>)

Fresh ==
    /\ _executable = S_rsync
    /\ _outputHandlers = [stdout |-> "noop", stderr |-> "noop"]
    /\ _cwd = ProcessCwd
    /\ _env = "process.env"
    /\ ret = Returned("new", <<>>)
    /\ runs = <<>>

\* The option methods
OptionInit ==
    /\ Fresh
    /\ _options = <<>>
    /\ \/ _patterns = <<>> /\ _sources = <<>> /\ _destination = Str(<<>>)
       \/ /\ _patterns = SamplePatterns
          /\ _sources = SampleSources
          /\ _destination = SampleDestination

OptionSpec == OptionInit /\ [][OptionNext \/ ReadNext]_vars

\* The filter methods
FilterInit ==
    /\ Fresh
    /\ _patterns = <<>>
    /\ \/ _options = <<>> /\ _sources = <<>> /\ _destination = Str(<<>>)
       \/ /\ _options = SampleOptions
          /\ _sources = SampleSources
          /\ _destination = SampleDestination

FilterSpec == FilterInit /\ [][FilterNext \/ ReadNext]_vars

\* The path and process-setting accessors
PathInit ==
    /\ Fresh
    /\ _sources = <<>>
    /\ _destination = Str(<<>>)
    /\ \/ _options = <<>> /\ _patterns = <<>>
       \/ _options = SampleOptions /\ _patterns = SamplePatterns

PathSpec == PathInit /\ [][PathNext \/ ReadNext]_vars

\* Execution
ExecInit ==
    /\ Fresh
    /\ _options = SampleOptions
    /\ _patterns = SamplePatterns
    /\ _sources = SampleSources
    /\ _destination = SampleDestination

ExecSpec == ExecInit /\ [][RunNext]_vars

\* The reactions of a settled promise are run by the microtask queue
FairExecSpec ==
    ExecSpec /\ \A i \in 1..MaxRuns : WF_vars(Propagate(i))

\* Reading the configuration and executing it
FrameNext ==
    \/ ReadNext
    \/ /\ Len(runs) < MaxRuns
       /\ \E opts \in ExecuteOpts, launch \in SpawnOutcomes : Execute(opts, launch)
    \/ \E i \in 1..MaxRuns : ProcError(i)
    \/ \E i \in 1..MaxRuns, code \in CloseCodes : ProcClose(i, code)
    \/ \E i \in 1..MaxRuns : Propagate(i)

\* A builder configured by earlier calls, output(f, g) possibly among them
FrameInit ==
    /\ _executable = S_rsync
    /\ _outputHandlers \in {[stdout |-> "noop", stderr |-> "noop"],
                            output([stdout |-> "noop", stderr |-> "noop"],
                                   [form |-> "args", list |-> <<"f", "g">>])}
    /\ _cwd = ProcessCwd
    /\ _env = "process.env"
    /\ ret = Returned("new", <<>>)
    /\ runs = <<>>
    /\ _options \in {<<>>, SampleOptions}
    /\ _patterns \in {<<>>, SamplePatterns}
    /\ _sources = SampleSources
    /\ _destination = SampleDestination

FrameSpec == FrameInit /\ [][FrameNext]_vars

\* The option store written and read under names with and without dashes
MapNames == {<<>>, <<"-", "-">>, <<"a">>, <<"-", "a">>}

MapNext ==
    \/ \E option \in MapNames, value \in OptionValues : Set(option, value)
    \/ \E option \in MapNames : Unset(option)
    \/ \E option \in MapNames : IsSet(option)
    \/ \E name \in MapNames : Option(name)

MapSpec == OptionInit /\ [][MapNext]_vars

\* setFlags with the same characters in the forms the documentation lists
FlagCalls ==
    {<<Str(<<"a", "v", "z">>)>>,
     <<Str(<<"a">>), Str(<<"v">>), Str(<<"z">>)>>,
     <<Arr(<<Str(<<"a">>), Arr(<<Str(<<"v", "z">>)>>)>>)>>,
     <<Arr(<<Str(<<"a">>), Str(<<"v">>)>>), Arr(<<Str(<<"z">>)>>)>>,
     <<Str(<<"a">>)>>, <<Str(<<"v">>)>>, <<Str(<<"z">>)>>,
     <<Str(<<"v", "z">>)>>, <<Arr(<<Str(<<"a", "v">>)>>)>>,
     <<Str(<<"a", "4">>)>>, <<Str(<<"4">>)>>, <<Arr(<<Str(<<"a">>)>>), Str(<<"4">>)>>}

FlagNext ==
    \/ \E flags \in FlagCalls : SetFlags(flags)
    \/ \E flags \in FlagCalls : Flags(flags)
    \/ Args

FlagSpec == OptionInit /\ [][FlagNext]_vars

\* Options set without a value and with values of every kind, falsy ones
\* among them
ValueNames == {<<"e">>, <<"-", "b">>, <<"-", "-", "r", "s", "h">>}

ValueArgs ==
    {Undefined, Str(<<"x">>), Str(<<"a", " ", "b">>), Str(<<>>), Num(<<"0">>),
     Arr(<<Str(<<"x">>), Str(<<"a", " ", "b">>)>>)}

ValueNext ==
    \/ \E option \in ValueNames, value \in ValueArgs : Set(option, value)
    \/ Args

ValueSpec == OptionInit /\ [][ValueNext]_vars

\* The escaping function applied to every short string over the characters it
\* tests for and one ordinary character
EscapeAlphabet == {"a", " ", "\"", "'", Backtick, "\\", "$"}

EscapeInputs == UNION {[1..k -> EscapeAlphabet] : k \in 0..MaxArgLen}

EscapeInit ==
    /\ _executable = S_rsync
    /\ _outputHandlers = [stdout |-> "noop", stderr |-> "noop"]
    /\ _cwd = ProcessCwd
    /\ _env = "process.env"
    /\ runs = <<>>
    /\ _options = <<>>
    /\ _patterns = <<>>
    /\ _sources = <<>>
    /\ _destination = Str(<<>>)
    /\ \E arg \in EscapeInputs : ret = Returned("input", <<arg>>)

EscapeShellArg ==
    /\ ret.op = "input"
    /\ ret' = Returned("escapeShellArg", <<ret.val[1], escapeShellArg(ret.val[1])>>)
    /\ UNCHANGED <<store, runs>>

EscapeSpec == EscapeInit /\ [][EscapeShellArg]_vars

\* The multi-value option chmod: scalars, arrays (nested, and with a falsy
\* element), falsy arguments, and a scalar stored by set()
ChmodArgs ==
    {Str(<<"u">>), Str(<<"g", " ", "x">>), Str(<<>>), Undefined,
     Arr(<<Str(<<"u">>), Str(<<"g", " ", "x">>)>>),
     Arr(<<Str(<<"u">>), Arr(<<Str(<<"u">>)>>)>>),
     Arr(<<Str(<<"u">>), Str(<<>>), Str(<<"g", " ", "x">>)>>),
     Arr(<<>>)}

ChmodSpec ==
    /\ OptionInit
    /\ [][\/ \E value \in ChmodArgs : Chmod(value)
          \/ ChmodGet
          \/ Set(S_chmod, Str(<<"o">>))
          \/ Args]_vars

\* The shorthand flag methods, called without an argument, with true and with
\* false, on a builder that may hold a valued option
ShorthandArgs == {Undefined, Boolean(TRUE), Boolean(FALSE)}

ShorthandInit ==
    /\ Fresh
    /\ _options \in {<<>>, <<[key |-> <<"r", "s", "h">>, value |-> Str(<<"x">>)]>>,
                     SampleOptions}
    /\ _patterns = <<>>
    /\ _sources = <<(<<"s">>)>>
    /\ _destination = SampleDestination

ShorthandSpec ==
    /\ ShorthandInit
    /\ [][\/ \E name \in DOMAIN ShorthandOptions, set \in ShorthandArgs : Shorthand(name, set)
          \/ ReadNext]_vars

\* Rsync.build on objects of a few keys, and one method call on the builder
\* it returned
BuildEntries ==
    {[key |-> "source", value |-> Str(<<"s">>)],
     [key |-> "source", value |-> Arr(<<Str(<<"s">>), Str(<<"a", " ", "b">>)>>)],
     [key |-> "source", value |-> Num(<<"4", "2">>)],
     [key |-> "destination", value |-> Str(<<"d">>)],
     [key |-> "flags", value |-> Str(<<"a", "z">>)],
     [key |-> "exclude", value |-> Arr(<<Str(<<"a">>)>>)],
     [key |-> "chmod", value |-> Str(<<"u">>)],
     [key |-> "chmod", value |-> Arr(<<Str(<<"u">>), Str(<<"g", " ", "x">>)>>)],
     [key |-> "archive", value |-> Boolean(TRUE)],
     [key |-> "archive", value |-> Boolean(FALSE)],
     [key |-> "shell", value |-> Str(<<"x">>)],
     [key |-> "execute", value |-> Boolean(TRUE)],
     [key |-> "foo", value |-> Str(<<"x">>)],
     [key |-> "_sources", value |-> Str(<<"x">>)]}

BuildObjects ==
    {o \in UNION {[1..k -> BuildEntries] : k \in 0..MaxKeys} :
        \A i, j \in 1..Len(o) : o[i].key = o[j].key => i = j}

\* The method that a key names, called with the key's value
Call(key, value, launch) ==
    \/ key = "source" /\ Source(value)
    \/ key = "destination" /\ Destination(value)
    \/ key = "flags" /\ Flags(<<value>>)
    \/ key = "exclude" /\ Exclude(<<value>>)
    \/ key = "chmod" /\ Chmod(value)
    \/ key = "archive" /\ Shorthand("archive", value)
    \/ key = "shell" /\ Shell(value)
    \/ /\ key = "execute"
       /\ Len(runs) < MaxRuns
       /\ Execute([stdoutHandler |-> "undefined", stderrHandler |-> "undefined"], launch)

BuildSpec ==
    /\ Init
    /\ [][\/ \E options \in BuildObjects, launch \in SpawnOutcomes : Build(options, launch)
          \/ /\ ret.op = "build"
             /\ ~ret.threw
             /\ \E entry \in BuildEntries, launch \in SpawnOutcomes :
                   Call(entry.key, entry.value, launch)]_vars

\* flags() of the callback-based builder in the forms of its tests
LegacyFlagCalls ==
    {<<>>,
     <<Str(<<"a", "v", "z">>)>>,
     <<Str(<<"-", "a">>)>>,
     <<Str(<<"v">>), Str(<<"z">>), Str(<<"a">>)>>,
     <<Arr(<<Str(<<"z">>), Str(<<"a">>), Str(<<"v">>)>>)>>,
     <<Str(<<"a", "z">>), Boolean(FALSE)>>,
     <<Str(<<"z">>), Str(<<"v">>), Boolean(FALSE)>>,
     <<Str(<<"a">>), Boolean(TRUE)>>,
     <<Arr(<<Str(<<"a">>), Str(<<"v">>)>>), Boolean(FALSE)>>,
     <<Dict(<<[key |-> <<"a">>, value |-> Boolean(FALSE)],
              [key |-> <<"u">>, value |-> Boolean(TRUE)]>>)>>}

LegacyInit ==
    /\ _executable = S_rsync
    /\ _sources = <<>>
    /\ _destination = Str(<<>>)
    /\ _patterns = <<>>
    /\ _options = <<>>
    /\ _outputHandlers = [stdout |-> "null", stderr |-> "null"]
    /\ _cwd = ProcessCwd
    /\ _env = "process.env"
    /\ ret = Returned("new", <<>>)
    /\ runs = <<>>

LegacySpec ==
    /\ LegacyInit
    /\ [][\/ \E arguments \in LegacyFlagCalls : LegacyFlags(arguments)
          \/ \E option \in MapNames, value \in OptionValues : LegacySet(option, value)
          \/ \E option \in MapNames : LegacyUnset(option)]_vars

\* execute() called again while earlier processes run, with output() calls
\* and the events of the processes in between
ConcurrentSpec ==
    /\ ExecInit
    /\ [][\/ /\ Len(runs) < MaxConcurrent
             /\ \E opts \in ExecuteOpts : Execute(opts, "spawned")
          \/ Output([form |-> "args", list |-> <<"g", "f">>])
          \/ \E i \in 1..MaxConcurrent, channel \in {"stdout", "stderr"} : Data(i, channel)
          \/ \E i \in 1..MaxConcurrent, code \in {Num(<<"0">>), Num(<<"2">>)} :
                ProcClose(i, code)
          \/ \E i \in 1..MaxConcurrent : Propagate(i)]_vars

-----------------------------------------------------------------------------
(* Properties of the execution engine *)

NoOpts == [stdoutHandler |-> "undefined", stderrHandler |-> "undefined"]

Settled(promise) == promise.state # "pending"

\* C1: the result of an execute() settles at most once, as fulfilled or as
\* rejected; no later step (a process event in any order and multiplicity)
\* changes a settled result.
C1_SettlesOnce ==
    [][\A i \in 1..Len(runs) :
          /\ runs'[i].inner.state \in {"pending", "fulfilled", "rejected"}
          /\ runs'[i].outer.state \in {"pending", "fulfilled", "rejected"}
          /\ Settled(runs[i].inner) => runs'[i].inner = runs[i].inner
          /\ Settled(runs[i].outer) => runs'[i].outer = runs[i].outer]_vars

\* C1 witness: the result is settled and the process has emitted both an
\* 'error' and a 'close' event, so one of them arrived after the settlement.
C1_LateEvent ==
    \E i \in 1..Len(runs) :
        /\ runs[i].listeners.completion
        /\ Settled(runs[i].outer)
        /\ runs[i].errored
        /\ runs[i].closed

\* C2: the result is fulfilled only when the process ended with exit status 0;
\* an end with any other status, or with no status (a signal), never fulfils it.
C2_SuccessOnlyOnExitZero ==
    \A i \in 1..Len(runs) :
        runs[i].outer.state = "fulfilled" =>
            runs[i].cause = [kind |-> "close", code |-> Num(<<"0">>)]

\* C3: for a process that ends with a nonzero exit status n, the result is
\* rejected with an error that carries n as its numeric exit code.
C3_ExitCodeCarried ==
    \A i \in 1..Len(runs) :
        (/\ Settled(runs[i].outer)
         /\ runs[i].cause.kind = "close"
         /\ runs[i].cause.code.t = "number"
         /\ runs[i].cause.code # Num(<<"0">>)) =>
            /\ runs[i].outer.state = "rejected"
            /\ ErrorCode(runs[i].outer.value) = runs[i].cause.code

C5_PendingWhileRunning ==
    \A i \in 1..Len(runs) :
        (Settled(runs[i].inner) \/ Settled(runs[i].outer)) =>
            (runs[i].launch = "throws" \/ runs[i].errored \/ runs[i].closed)

\* C5 (liveness part): once the process has ended or failed to spawn, the
\* result eventually settles.
C5_EventuallySettles ==
    \A i \in 1..MaxRuns :
        (i <= Len(runs)
         /\ (runs[i].launch = "throws" \/ runs[i].errored \/ runs[i].closed))
        ~> (i <= Len(runs) /\ Settled(runs[i].outer))

\* C6: in an execute() without handler options made right after output(f, g)
\* or output([f, g]), every chunk of standard output is delivered to f and
\* every chunk of standard error to g (the log is in arrival order).
C6_ChunksToRegistered ==
    \A i \in 1..Len(runs) :
        (runs[i].opts = NoOpts /\ Len(runs[i].asked) = 2) =>
            \A k \in 1..Len(runs[i].log) :
                runs[i].log[k].to =
                    IF runs[i].log[k].channel = "stdout"
                    THEN runs[i].asked[1][1] ELSE runs[i].asked[2][1]

\* C7: in execute({stdoutHandler: A, stderrHandler: B}) the chunks of standard
\* output are delivered to A and the chunks of standard error to B.
C7_OverrideDelivered ==
    \A i \in 1..Len(runs) :
        runs[i].opts = [stdoutHandler |-> "A", stderrHandler |-> "B"] =>
            \A k \in 1..Len(runs[i].log) :
                runs[i].log[k].to =
                    IF runs[i].log[k].channel = "stdout" THEN "A" ELSE "B"

\* The configuration a spawn made now would use
SpawnConfiguration ==
    [file |-> _executable,
     args |-> args(_options, _patterns, _sources, _destination),
     cwd |-> _cwd,
     env |-> _env,
     shell |-> TRUE]

\* args() called twice in a row returns the same list, and the latest
\* execute() spawned with the configuration as it still is
SameResultAgain ==
    /\ [][(ret.op = "args" /\ ret'.op = "args") => ret'.val = ret.val]_vars
    /\ [](ret.op = "execute" => runs[Len(runs)].spawn = SpawnConfiguration)

\* C8 as stated: a step of args(), command() or execute() (the call, and the
\* process events that follow it) leaves the whole Configuration Store, the
\* two output handlers included, as it was.
C8_ReadOnly ==
    /\ [][ret'.op \in {"args", "command", "execute"} => store' = store]_vars
    /\ SameResultAgain

\* C8 amended: such a step leaves options, patterns, sources, destination,
\* executable, working directory and environment as they were, and args() and
\* command() leave the output handlers too; execute() registers handlers.
C8_ReadOnlyExceptHandlers ==
    /\ [][ret'.op \in {"args", "command", "execute"} =>
            /\ UNCHANGED <<_executable, _sources, _destination, _patterns,
                           _options, _cwd, _env>>
            /\ ret'.op \in {"args", "command"} =>
                   _outputHandlers' = _outputHandlers]_vars
    /\ SameResultAgain

\* C8 witness: an execute() with handler options has failed, the handlers are
\* the ones it registered and the rest of the configuration is the initial one.
C8_FailedRunKeepsConfiguration ==
    /\ ret.op = "execute"
    /\ runs # <<>>
    /\ runs[Len(runs)].outer.state = "rejected"
    /\ _outputHandlers.stdout = "A"
    /\ _options = SampleOptions
    /\ _patterns = SamplePatterns
    /\ _sources = SampleSources
    /\ _destination = SampleDestination

\* C27: each execute() adds one process and leaves the earlier runs as they
\* are; a step changes at most one run; the result of a run changes only with
\* an event of its own process (and the returned promise only by taking that
\* result); the listeners of a run stay the handlers that were registered
\* when it was spawned, whatever output() or execute() is called later, and a
\* chunk of a run is delivered to them.
C27_RunsIsolated ==
    [][/\ \A i \in 1..Len(runs) :
             /\ Len(runs') >= Len(runs)
             /\ runs'[i].listeners = runs[i].listeners
             /\ runs'[i].spawn = runs[i].spawn
             /\ runs'[i].inner # runs[i].inner =>
                    runs'[i].events = runs[i].events + 1
             /\ runs'[i].outer # runs[i].outer =>
                    /\ runs'[i].outer.state = runs[i].inner.state
                    /\ runs'[i].outer.value = runs[i].inner.value
             /\ runs'[i] # runs[i] =>
                    \A j \in 1..Len(runs) : j # i => runs'[j] = runs[j]
       /\ \A opts \in ExecuteOpts :
             Execute(opts, "spawned") =>
                 /\ Len(runs') = Len(runs) + 1
                 /\ SubSeq(runs', 1, Len(runs)) = runs
                 /\ runs'[Len(runs')].listeners.completion =>
                        /\ runs'[Len(runs')].listeners.stdout = _outputHandlers'.stdout
                        /\ runs'[Len(runs')].listeners.stderr = _outputHandlers'.stderr
       /\ _outputHandlers' # _outputHandlers => SubSeq(runs', 1, Len(runs)) = runs
       /\ \A i \in 1..Len(runs), channel \in {"stdout", "stderr"} :
             Data(i, channel) =>
                 runs'[i].log[Len(runs'[i].log)] =
                     [channel |-> channel, to |-> runs[i].listeners[channel]]]_vars

\* C27 witness: the second run was spawned with other handlers while the first
\* process was running, and each run has delivered a chunk to its own handler
C27_TwoRunsOwnHandlers ==
    /\ Len(runs) = 2
    /\ ~runs[1].closed
    /\ runs[1].listeners.stdout # runs[2].listeners.stdout
    /\ Len(runs[1].log) = 1
    /\ Len(runs[2].log) = 1
    /\ runs[1].log[1].to = runs[1].listeners.stdout
    /\ runs[2].log[1].to = runs[2].listeners.stdout

-----------------------------------------------------------------------------
(* Properties of the argument assembler *)

S_include == <<"i", "n", "c", "l", "u", "d", "e">>

S_exclude == <<"e", "x", "c", "l", "u", "d", "e">>

\* The options that belong to the short cluster, as a set of names
ShortNames ==
    {_options[i].key : i \in {j \in 1..Len(_options) :
        Len(_options[j].key) = 1 /\ _options[j].value.t = "undefined"}}

\* The tokens of the long options taken in option-insertion order
LongTokensInInsertionOrder == LongTokens(_options, OwnKeysCreationOrder(_options))

DestinationTokens ==
    IF Truthy(_destination) THEN <<unixify(_destination.v)>> ELSE <<>>

\* C9: args() returns the short cluster (only if some short flag is set), then
\* the long-option tokens in option-insertion order, then the filter tokens in
\* pattern-insertion order, then the source tokens in source-insertion order,
\* then the destination token; an empty group contributes no token, and an
\* empty configuration with one source and a destination gives the command
\* text "<executable> s d".
C9_ArgsOrder ==
    /\ ret.op = "args" =>
         LET hasCluster == ShortNames # {}
             rest == IF hasCluster /\ ret.val # <<>> THEN Tail(ret.val) ELSE ret.val
         IN  /\ hasCluster =>
                  /\ ret.val # <<>>
                  /\ Len(Head(ret.val)) = 1 + Cardinality(ShortNames)
                  /\ Head(ret.val)[1] = "-"
                  /\ {<<Head(ret.val)[i]>> : i \in 2..Len(Head(ret.val))} = ShortNames
             /\ rest = LongTokensInInsertionOrder
                       \o [i \in 1..Len(_patterns) |-> FilterToken(_patterns[i])]
                       \o [i \in 1..Len(_sources) |-> unixify(_sources[i])]
                       \o DestinationTokens
    /\ (/\ ret.op = "command"
        /\ _options = <<>>
        /\ _patterns = <<>>
        /\ Len(_sources) = 1
        /\ Truthy(_destination)) =>
         ret.val = <<_executable \o <<" ">> \o unixify(_sources[1])
                     \o <<" ">> \o unixify(_destination.v)>>

\* C10: the filter tokens of args() correspond one-to-one to the appended
\* pattern entries in append order, each rendered --include=<pattern> or
\* --exclude=<pattern> (the pattern escaped for the shell) by its action.
C10_FilterTokens ==
    ret.op = "args" =>
        LET after == Len(_sources) + Len(DestinationTokens)
            first == Len(ret.val) - after - Len(_patterns)
        IN  /\ first >= 0
            /\ \A i \in 1..Len(_patterns) :
                   ret.val[first + i] =
                       <<"-", "-">>
                       \o (IF _patterns[i].action = "-" THEN S_exclude ELSE S_include)
                       \o <<"=">>
                       \o escapeShellArg(String(_patterns[i].pattern))

-----------------------------------------------------------------------------
(* Properties of the source list *)

\* The values supplied by a source() argument, arrays flattened, in order
RECURSIVE Supplied(_)
RECURSIVE SuppliedEach(_)
SuppliedEach(values) ==
    IF values = <<>> THEN <<>>
    ELSE Supplied(Head(values)) \o SuppliedEach(Tail(values))

Supplied(value) ==
    IF value.t = "array" THEN SuppliedEach(value.v) ELSE <<value>>

OnlyStrings(value) ==
    \A i \in 1..Len(Supplied(value)) : Supplied(value)[i].t = "string"

\* The position of the first occurrence of a string among the supplied values
FirstAt(text, supplied) ==
    CHOOSE i \in 1..Len(supplied) :
        /\ supplied[i].v = text
        /\ \A j \in 1..(i - 1) : supplied[j].v # text

\* C18: a source() call with a string or an array of strings keeps the list
\* as a prefix and appends each supplied string that is not yet present, once,
\* in order of first occurrence; the list never holds a string twice, and
\* re-adding present strings leaves it unchanged.
C18_SourcesDistinctInOrder ==
    /\ [](\A i, j \in 1..Len(_sources) : _sources[i] = _sources[j] => i = j)
    /\ [][\A value \in SourceArgs :
            (OnlyStrings(value) /\ Source(value)) =>
                LET supplied == Supplied(value)
                    old == Len(_sources)
                IN  /\ ~ret'.threw
                    /\ Len(_sources') >= old
                    /\ SubSeq(_sources', 1, old) = _sources
                    /\ {_sources'[i] : i \in 1..Len(_sources')} =
                           {_sources[i] : i \in 1..old}
                           \cup {supplied[i].v : i \in 1..Len(supplied)}
                    /\ \A i, j \in (old + 1)..Len(_sources') :
                           i < j => FirstAt(_sources'[i], supplied)
                                    < FirstAt(_sources'[j], supplied)]_vars

\* C18 witness: source() was given a string that was already in a list of two
\* (it stands first), and the list is as it was
C18_ReAddedSource ==
    /\ ret.op = "source"
    /\ ~ret.threw
    /\ ret.val[1].t = "string"
    /\ Len(_sources) = 2
    /\ _sources[1] = ret.val[1].v

\* C19: a source() call with a value that is neither a string nor an array,
\* also as an element of an array (at any depth), throws from that call, and
\* no process has been spawned by it; a call with strings only does not throw.
C19_SourceRejectsNonString ==
    ret.op = "source" =>
        /\ ret.threw = ~OnlyStrings(ret.val[1])
        /\ ret.threw => runs = <<>>

\* C19 witness: source() threw on an array that holds a number
C19_ThrewOnArrayElement ==
    /\ ret.op = "source"
    /\ ret.threw
    /\ ret.val[1] = Arr(<<Str(<<"s">>), Num(<<"4", "2">>)>>)

\* C29: a source(...) call that throws leaves the source list as it was
\* before the call.
C29_ThrowLeavesSources ==
    [][\A value \in SourceArgs :
          (Source(value) /\ ret'.threw) => _sources' = _sources]_vars

-----------------------------------------------------------------------------
(* Properties of the pattern list *)

\* Whether every value supplied to patterns() is a string that begins with a
\* sign or an {action, pattern} pair whose action is a sign
Signed(patterns) ==
    \A i \in 1..Len(SuppliedEach(patterns)) :
        LET p == SuppliedEach(patterns)[i]
        IN  \/ p.t = "string" /\ p.v # <<>> /\ p.v[1] \in {"+", "-"}
            \/ p.t = "object" /\ p.v[1] \in {Str(<<"+">>), Str(<<"-">>)}

\* The entry a signed value stands for: its sign and the text without the sign
SignedEntry(p) ==
    IF p.t = "string"
    THEN [action |-> p.v[1], pattern |-> Str(SubSeq(p.v, 2, Len(p.v)))]
    ELSE [action |-> p.v[1].v[1], pattern |-> p.v[2]]

\* C20: patterns() appends, for the supplied values taken element by element
\* through arrays of any depth, the entry of each signed string (sign removed
\* from the text) or {action, pattern} pair; include() and exclude() append the
\* entries of their texts in the same way; so '+text', {action: '+', pattern:
\* 'text'} and include('text') append the same entry, and likewise for '-'.
C20_PatternForms ==
    /\ [][\A given \in PatternsArgs \cup FilterArgs :
            LET supplied == SuppliedEach(given)
            IN  /\ (given \in PatternsArgs /\ Signed(given) /\ Patterns(given)) =>
                       _patterns' = _patterns
                           \o [i \in 1..Len(supplied) |-> SignedEntry(supplied[i])]
                /\ (given \in FilterArgs /\ Include(given)) =>
                       _patterns' = _patterns
                           \o [i \in 1..Len(supplied) |->
                                  [action |-> "+", pattern |-> supplied[i]]]
                /\ (given \in FilterArgs /\ Exclude(given)) =>
                       _patterns' = _patterns
                           \o [i \in 1..Len(supplied) |->
                                  [action |-> "-", pattern |-> supplied[i]]]]_vars
    /\ [](\A sign \in {"+", "-"}, text \in PatternTexts :
             /\ PatternEntries(<<Str(<<sign>> \o text)>>) =
                    PatternEntries(<<Obj(Str(<<sign>>), Str(text))>>)
             /\ PatternEntries(<<Str(<<sign>> \o text)>>) =
                    FilterEntries(sign, <<Str(text)>>)
             /\ _patterns \o FilterEntries(sign, <<Str(text)>>) =
                    Append(_patterns, [action |-> sign, pattern |-> Str(text)]))

\* C20 witness: patterns() was given a nested array of two signed strings and
\* the list holds their two entries, signs removed
C20_NestedSignedStrings ==
    /\ ret.op = "patterns"
    /\ ret.val = <<Arr(<<Arr(<<Str(<<"+", "a">>)>>), Str(<<"-", "b", " ", "c">>)>>)>>
    /\ _patterns = <<[action |-> "+", pattern |-> Str(<<"a">>)],
                     [action |-> "-", pattern |-> Str(<<"b", " ", "c">>)]>>

\* C21: patterns() given one string whose first character is neither '+' nor
\* '-' does not throw and appends exactly one entry, whose action is include.
C21_UnsignedIncluded ==
    [][\A given \in PatternsArgs :
          (/\ Len(given) = 1
           /\ given[1].t = "string"
           /\ (given[1].v = <<>> \/ given[1].v[1] \notin {"+", "-"})
           /\ Patterns(given)) =>
              /\ ~ret'.threw
              /\ Len(_patterns') = Len(_patterns) + 1
              /\ SubSeq(_patterns', 1, Len(_patterns)) = _patterns
              /\ _patterns'[Len(_patterns')].action = "+"]_vars

\* C21 witness: patterns('*a') was called and the last entry is an include
C21_StarIncluded ==
    /\ ret.op = "patterns"
    /\ ret.val = <<Str(<<"*", "a">>)>>
    /\ _patterns # <<>>
    /\ _patterns[Len(_patterns)].action = "+"

-----------------------------------------------------------------------------
(* Properties of the path serializer *)

\* C11: every source token and the destination token of args() is the escaped
\* form of the normalized path, so that no path holding a space, a quote, a
\* backtick, a backslash or a dollar sign reaches the shell unescaped.
C11_PathsEscaped ==
    ret.op = "args" =>
        LET paths == _sources
                     \o (IF Truthy(_destination) THEN <<_destination.v>> ELSE <<>>)
            first == Len(ret.val) - Len(paths)
        IN  /\ first >= 0
            /\ \A i \in 1..Len(paths) :
                   ret.val[first + i] = escapeShellArg(unixify(paths[i]))

-----------------------------------------------------------------------------
(* Properties of the option serializer *)

\* The token of an option name with a value: --name=<escaped> or -n <escaped>
ValueToken(name, val) ==
    (IF Len(name) = 1 THEN <<"-">> \o name \o <<" ">>
     ELSE <<"-", "-">> \o name \o <<"=">>)
    \o escapeShellArg(String(val))

\* C13: for every option set with a scalar value v, args() holds exactly one
\* token --name=<escaped v> (or -n <escaped v> for a one-character name), and
\* for a list value one such token per element in list order; falsy values
\* such as 0 or the empty string are rendered like any other.
C13_ValueTokens ==
    ret.op = "args" =>
        \A i \in 1..Len(_options) :
            LET name == _options[i].key
                v == _options[i].value
            IN  /\ v.t \in {"string", "number"} =>
                       Cardinality({k \in 1..Len(ret.val) :
                                       ret.val[k] = ValueToken(name, v)}) = 1
                /\ v.t = "array" =>
                       \E at \in [1..Len(v.v) -> 1..Len(ret.val)] :
                           /\ \A j \in 1..Len(v.v) :
                                  ret.val[at[j]] = ValueToken(name, v.v[j])
                           /\ \A j \in 1..(Len(v.v) - 1) : at[j] < at[j + 1]

\* The name without its leading dashes
Stripped(name) == SubSeq(name, 1 + Cardinality({i \in 1..Len(name) :
                             \A j \in 1..i : name[j] = "-"}), Len(name))

\* C16: the option store is a map keyed by the dash-stripped name: a set(n, v)
\* makes isSet true and option equal to v under every spelling of n, an
\* unset(n) makes isSet false under every spelling of n (and is a no-op for an
\* absent name), no call changes what is stored under another name, and
\* isSet() and option() answer alike for every spelling of a name.
C16_MapByStrippedName ==
    /\ [][\A n \in MapNames :
            /\ \A v \in OptionValues :
                   Set(n, v) =>
                       \A m \in MapNames :
                           IF Stripped(m) = Stripped(n)
                           THEN ProxyHas(_options', m) /\ ProxyGet(_options', m) = v
                           ELSE /\ ProxyHas(_options', m) = ProxyHas(_options, m)
                                /\ ProxyGet(_options', m) = ProxyGet(_options, m)
            /\ Unset(n) =>
                   \A m \in MapNames :
                       IF Stripped(m) = Stripped(n)
                       THEN ~ProxyHas(_options', m) /\ ProxyGet(_options', m) = Undefined
                       ELSE /\ ProxyHas(_options', m) = ProxyHas(_options, m)
                            /\ ProxyGet(_options', m) = ProxyGet(_options, m)]_vars
    /\ [](ret.op \in {"isSet", "option"} =>
             \A m \in MapNames :
                 Stripped(m) = Stripped(ret.val[1].v) =>
                     ret.val[2] = IF ret.op = "isSet"
                                  THEN Boolean(ProxyHas(_options, m))
                                  ELSE ProxyGet(_options, m))

\* C17: what option(n) returns for an option set without a value differs from
\* what it returns for a name that was never set.
C17_ValuelessDistinguished ==
    (/\ ret.op = "option"
     /\ \E i \in 1..Len(_options) :
            _options[i] = [key |-> Stripped(ret.val[1].v), value |-> Undefined]) =>
        ret.val[2] # ProxyGet(<<>>, ret.val[1].v)

\* C28: every name stored in the options map is a non-empty string, and the
\* argument list of the configuration holds no bare '-' or '--' token.
C28_NamesNonEmpty ==
    /\ \A i \in 1..Len(_options) : _options[i].key # <<>>
    /\ \A argv \in {args(_options, _patterns, _sources, _destination)} :
           \A i \in 1..Len(argv) : argv[i] \notin {<<"-">>, <<"-", "-">>}

\* The flag characters of a setFlags call, read off the text of its arguments
FlagText(flags) == SelectSeq(JoinValues(flags), LAMBDA c : c # ",")

\* C15: the options state after setFlags depends only on the flattened
\* sequence of flag characters (strings, separate arguments, arrays and nested
\* arrays are interchangeable, and so is one call against several calls), and
\* the cluster of args() lists the flags in the order they were first set.
C15_FlagsFlattened ==
    /\ \A f1, f2 \in FlagCalls :
           FlagText(f1) = FlagText(f2) =>
               SetEach(_options, parseFlags(f1)) = SetEach(_options, parseFlags(f2))
    /\ \A f1, f2, f3 \in FlagCalls :
           FlagText(f1) \o FlagText(f2) = FlagText(f3) =>
               SetEach(SetEach(_options, parseFlags(f1)), parseFlags(f2)) =
                   SetEach(_options, parseFlags(f3))
    /\ (ret.op = "args" /\ _options # <<>>) =>
           ret.val[1] = <<"-">> \o Join(OwnKeysCreationOrder(_options), <<>>)

\* C25: flags(...) leaves the options as setFlags(...) with the same
\* arguments does, whatever their form, and returns the builder.
C25_FlagsIsSetFlags ==
    [][\A flags \in FlagCalls :
          Flags(flags) =>
              /\ _options' = SetEach(_options, parseFlags(flags))
              /\ ret' = Returned("this", <<>>)]_vars

\* The options of the short cluster, as positions in the option store
ClusterMembers ==
    {i \in 1..Len(_options) :
        Len(_options[i].key) = 1 /\ _options[i].value.t = "undefined"}

\* How many tokens an option outside the cluster is rendered as
TokenCount(i) ==
    IF _options[i].value.t = "array" THEN Len(_options[i].value.v) ELSE 1

\* Whether a token is the one of the option name: -n, -n <value>, --name or
\* --name=<value>
IsTokenOf(token, name) ==
    LET head == (IF Len(name) = 1 THEN <<"-">> ELSE <<"-", "-">>) \o name
        glue == IF Len(name) = 1 THEN " " ELSE "="
    IN  \/ token = head
        \/ /\ Len(token) > Len(head)
           /\ SubSeq(token, 1, Len(head)) = head
           /\ token[Len(head) + 1] = glue

\* C14: an option is in the clustered short token exactly when its stripped
\* name has length 1 and it was set without a value; every other option is
\* rendered as its own token(s) after the cluster; at most one cluster token
\* is emitted, a '-' followed by the short names without separators.
C14_ShortCluster ==
    ret.op = "args" =>
        LET cluster == IF ClusterMembers = {} THEN 0 ELSE 1
            others == (1..Len(_options)) \ ClusterMembers
            optionTokens == Len(ret.val) - Len(_patterns) - Len(_sources)
                            - Len(DestinationTokens)
        IN  /\ optionTokens =
                   cluster + Cardinality({<<i, j>> \in others \X (1..Len(ret.val)) :
                                             j <= TokenCount(i)})
            /\ cluster = 1 =>
                   /\ Len(ret.val[1]) = 1 + Cardinality(ClusterMembers)
                   /\ ret.val[1][1] = "-"
                   /\ {<<ret.val[1][k]>> : k \in 2..Len(ret.val[1])} =
                          {_options[i].key : i \in ClusterMembers}
            /\ \A i \in others :
                   Cardinality({k \in (cluster + 1)..optionTokens :
                                   IsTokenOf(ret.val[k], _options[i].key)}) =
                       TokenCount(i)

\* C14 witness: args() of a configuration with a one-character option without
\* a value and a one-character option with a value
C14_ShortAndValued ==
    /\ ret.op = "args"
    /\ \E i, j \in 1..Len(_options) :
           /\ _options[i] = [key |-> <<"e">>, value |-> Undefined]
           /\ _options[j] = [key |-> <<"b">>, value |-> Str(<<"x">>)]
    /\ ret.val[1] = <<"-", "e">>
    /\ ret.val[2] = <<"-", "b", " ", "x">>

-----------------------------------------------------------------------------
(* Properties of the escaping function *)

-----------------------------------------------------------------------------
(* Properties of the exposed option methods *)

\* The scalar values an argument supplies, arrays contributing their elements
RECURSIVE Leaves(_)
Leaves(value) ==
    IF value.t # "array" THEN <<value>>
    ELSE IF value.v = <<>> THEN <<>>
    ELSE Leaves(Head(value.v)) \o Leaves(Arr(Tail(value.v)))

\* The stored value after the scalars are supplied one by one: a falsy one
\* clears, another one is appended to the list, a stored scalar being its
\* first element
RECURSIVE Accumulated(_, _)
Accumulated(current, scalars) ==
    IF scalars = <<>> THEN current
    ELSE LET x == Head(scalars)
             list == IF current.t = "array" THEN current.v
                     ELSE IF current = Undefined THEN <<>>
                     ELSE <<current>>
         IN  Accumulated(IF Truthy(x) THEN Arr(list \o <<x>>) ELSE Undefined,
                         Tail(scalars))

ChmodTokens(stored) ==
    LET list == IF stored.t = "array" THEN stored.v
                ELSE IF stored = Undefined THEN <<>>
                ELSE <<stored>>
    IN  [i \in 1..Len(list) |->
            <<"-", "-">> \o S_chmod \o <<"=">> \o escapeShellArg(String(list[i]))]

IsChmodToken(token) ==
    /\ Len(token) >= 7
    /\ SubSeq(token, 1, 7) = <<"-", "-">> \o S_chmod

CommandText(options) ==
    command(_executable, args(options, _patterns, _sources, _destination))

\* Whether the token of a valueless option is in an argument list: the letter
\* in the cluster that leads the list, or --name
FlagTokenIn(option, argv) ==
    IF Len(option) = 1
    THEN /\ argv # <<>>
         /\ Len(argv[1]) >= 2
         /\ argv[1][1] = "-"
         /\ argv[1][2] # "-"
         /\ \E i \in 2..Len(argv[1]) : <<argv[1][i]>> = option
    ELSE \E i \in 1..Len(argv) : argv[i] = <<"-", "-">> \o option

\* C23: a shorthand flag method called without an argument (or with true)
\* sets its option and the option's token is in the argument list; called
\* with false it unsets the option and the token is not in the list; and
\* where the option is absent, the call followed by the call with false gives
\* back the original command text.
C23_ShorthandRoundTrip ==
    /\ [][\A name \in DOMAIN ShorthandOptions, set \in ShorthandArgs :
             Shorthand(name, set) =>
                 \A argv \in {args(_options', _patterns', _sources', _destination')} :
                     LET option == ShorthandOptions[name]
                     IN  /\ ProxyHas(_options', option) = (set # Boolean(FALSE))
                         /\ FlagTokenIn(option, argv) = (set # Boolean(FALSE))]_vars
    /\ [](\A name \in DOMAIN ShorthandOptions :
             LET option == ShorthandOptions[name]
                 after == ShortOption(ShortOption(_options, option, Undefined),
                                      option, Boolean(FALSE))
             IN  ~ProxyHas(_options, option) =>
                     /\ after = _options
                     /\ CommandText(after) = CommandText(_options))

\* C23 witness: the command text read after delete() on a builder that holds
\* a valued option
C23_DeleteInCommand ==
    /\ ret.op = "command"
    /\ ProxyHas(_options, ShorthandOptions.delete)
    /\ ProxyHas(_options, <<"r", "s", "h">>)
    /\ ret.val = <<CommandText(_options)>>

-----------------------------------------------------------------------------
(* Properties of Rsync.build *)

\* Whether the configuration is that of the command record
ConfiguredAs(cmd) ==
    /\ _sources = cmd.sources
    /\ _destination = cmd.destination
    /\ _patterns = cmd.patterns
    /\ _options = cmd.options
    /\ _outputHandlers = cmd.outputHandlers
    /\ _executable = S_rsync
    /\ _cwd = ProcessCwd
    /\ _env = "process.env"

NamesMethod(entry) == IsMethod(entry.key)

\* C24: the builder that build(o) returns is a fresh builder on which the
\* methods named by the keys of o were called in key order, each with the
\* key's value: build of the empty object is a fresh builder, a key that names
\* no method changes nothing and raises no error, and the builder of build(o)
\* after the call k(v) is the builder of build(o with k: v added last), an
\* error of the call being the error of that build.
C24_BuildIsCallSequence ==
    /\ [](ret.op = "build" =>
             \E launch \in SpawnOutcomes :
                 LET called == build(NewCommand, SelectSeq(ret.val, NamesMethod), launch)
                 IN  /\ ret.threw = called.threw
                     /\ runs = called.runs
                     /\ ~ret.threw => ConfiguredAs(called))
    /\ [](ret.op = "build" /\ SelectSeq(ret.val, NamesMethod) = <<>> =>
             ~ret.threw /\ ConfiguredAs(NewCommand) /\ runs = <<>>)
    /\ [][\A entry \in BuildEntries, launch \in SpawnOutcomes :
             (/\ ret.op = "build"
              /\ \A i \in 1..Len(ret.val) : ret.val[i].key # entry.key
              /\ Call(entry.key, entry.value, launch)) =>
                 \E first \in SpawnOutcomes :
                     LET built == build(NewCommand, Append(ret.val, entry),
                                        IF entry.key = "execute" THEN launch ELSE first)
                     IN  /\ ret'.threw = built.threw
                         /\ runs' = built.runs
                         /\ ~built.threw =>
                                /\ _sources' = built.sources
                                /\ _destination' = built.destination
                                /\ _patterns' = built.patterns
                                /\ _options' = built.options
                                /\ _outputHandlers' = built.outputHandlers]_vars

\* C24 witness: build of the documentation's kind of object, with a key that
\* names no method in the middle
C24_BuiltAroundUnknownKey ==
    /\ ret.op = "build"
    /\ ~ret.threw
    /\ Len(ret.val) = 2
    /\ ret.val[1].key = "foo"
    /\ ret.val[2].key = "source"
    /\ _sources # <<>>

-----------------------------------------------------------------------------
(* Properties of the callback-based builder *)

\* The flag characters that the arguments of a flags call name
RECURSIVE NamedFlags(_)
NamedFlags(arguments) ==
    IF arguments = <<>> THEN {}
    ELSE LET x == Head(arguments)
         IN  (CASE x.t = "string" ->
                       LET text == stripLeadingDashes(x.v)
                       IN  {<<text[i]>> : i \in 1..Len(text)}
                [] x.t = "array" -> NamedFlags(x.v)
                [] OTHER -> {})
             \cup NamedFlags(Tail(arguments))

\* C26: flags(x..., false) unsets every one-character flag named before the
\* trailing boolean, given as a string, as separate arguments or as an array,
\* and leaves the other options as they were; without a trailing boolean, or
\* with true, it sets them; the object form sets or unsets each key by its
\* value.
C26_LegacyFlags ==
    [][\A arguments \in LegacyFlagCalls :
          LegacyFlags(arguments) =>
              LET object == arguments # <<>> /\ arguments[1].t = "object"
                  named == IF object
                           THEN {arguments[1].v[i].key : i \in 1..Len(arguments[1].v)}
                           ELSE NamedFlags(arguments)
                  set(k) == IF object
                            THEN Truthy(ProxyGet(arguments[1].v, k))
                            ELSE arguments[Len(arguments)] # Boolean(FALSE)
              IN  /\ \A k \in named : HasKey(_options', k) = set(k)
                  /\ \A i \in 1..Len(_options) :
                         _options[i].key \notin named =>
                             /\ HasKey(_options', _options[i].key)
                             /\ ProxyGet(_options', _options[i].key) = _options[i].value
                  /\ \A i \in 1..Len(_options') :
                         _options'[i].key \notin named =>
                             HasKey(_options, _options'[i].key)]_vars

\* C30: build spawns no process whatever the keys of its argument; the list
\* of runs grows only in a step that is an execute() call on the builder.
C30_BuildSpawnsNothing ==
    [][/\ \A options \in BuildObjects, launch \in SpawnOutcomes :
             Build(options, launch) => runs' = runs
       /\ Len(runs') > Len(runs) =>
             \E opts \in ExecuteOpts, launch \in SpawnOutcomes : Execute(opts, launch)]_vars

====
